---- MODULE Spec2Model ----
(***************************************************************************)
(* A model of gx-org/backend: the host buffer transfer protocol of package *)
(* platform (HostTransfer over the HostBuffer interface) and the pure      *)
(* value types and conversions of packages dtype and shape.                *)
(***************************************************************************)
EXTENDS Integers, Sequences, FiniteSets, TLC

\* Largest byte value stored in a buffer (bytes range over 0..MaxByte).
MaxByte == 1

\* Concurrent callers (goroutines) of HostTransfer.
Procs == {"p1", "p2"}

\* The host buffers of the platform: a and b are allocated with two bytes,
\* c with one byte.
Bufs == {"a", "b", "c"}

AllocLen(b) == IF b = "c" THEN 1 ELSE 2

Bytes == 0..MaxByte

BytesOfLen(n) == [1..n -> Bytes]

BufStates == {"Unlocked", "Locked", "Freed"}

VARIABLES
  state,        \* per buffer: Unlocked, Locked or Freed
  holders,      \* per buffer: the callers whose Acquire returned the bytes and who have not released
  data,         \* per buffer: its bytes (empty once freed)
  pc,           \* per caller: position in HostTransfer
  dstB, srcB,   \* per caller: the arguments of its HostTransfer call
  dst, src,     \* per caller: the slices returned by Acquire ("nil" or "ref" to the buffer's bytes)
  result,       \* per caller: the value HostTransfer returned ("nil" or "error")
  before,       \* per caller: the buffers' bytes and states when its undisturbed call started
  quiet,        \* per caller: its call started with all others idle and nothing else has acted since
  sx,           \* the shape the dtype and shape functions are applied to
  sres          \* the last function applied to sx, its other argument and what it returned

tvars == <<state, holders, data, pc, dstB, srcB, dst, src, result, before, quiet>>

svars == <<sx, sres>>

vars == <<tvars, svars>>

Min(m, n) == IF m <= n THEN m ELSE n

\* len() of a slice returned by Acquire on buffer b: nil has length 0.
SliceLen(sl, b) == IF sl = "ref" THEN Len(data[b]) ELSE 0

\* Go's builtin copy(to, from): copies min(len(to), len(from)) elements and
\* leaves the rest of to alone.
GoCopy(to, from) ==
  [i \in 1..Len(to) |-> IF i <= Min(Len(to), Len(from)) THEN from[i] ELSE to[i]]

NoCall == [dst |-> <<>>, src |-> <<>>, dstState |-> "Unlocked", srcState |-> "Unlocked"]

Idle(q) == pc[q] \in {"idle", "done"}

\* Bookkeeping of a step of caller p: the calls of all other callers are
\* disturbed from now on.
Disturb(p) ==
  /\ quiet' = [q \in Procs |-> q = p /\ quiet[q]]
  /\ before' = [q \in Procs |-> IF q = p THEN before[q] ELSE NoCall]

----------------------------------------------------------------------------
(* The HostBuffer interface *)

AcquireNoBlock(p, b) ==
  IF state[b] = "Freed"
    THEN UNCHANGED <<state, holders>>
    ELSE /\ state' = [state EXCEPT ![b] = "Locked"]
         /\ holders' = [holders EXCEPT ![b] = @ \cup {p}]

\* HostBuffer.Acquire: locks the buffer and returns it; all other access is
\* locked (the call blocks while another caller holds the buffer); returns
\* nil if the handle has been freed.
Acquire(p, b) ==
  /\ state[b] # "Locked"
  /\ IF state[b] = "Freed"
       THEN UNCHANGED <<state, holders>>
       ELSE /\ state' = [state EXCEPT ![b] = "Locked"]
            /\ holders' = [holders EXCEPT ![b] = @ \cup {p}]

\* The slice Acquire returns.
Acquired(b) == IF state[b] = "Freed" THEN "nil" ELSE "ref"

ReleaseUnfrees(p, b) ==
  /\ state' = [state EXCEPT ![b] = "Unlocked"]
  /\ holders' = [holders EXCEPT ![b] = @ \ {p}]

\* HostBuffer.Release: unlocks the buffer. A freed handle stays invalid.
Release(p, b) ==
  IF state[b] = "Locked"
    THEN /\ state' = [state EXCEPT ![b] = "Unlocked"]
         /\ holders' = [holders EXCEPT ![b] = @ \ {p}]
    ELSE UNCHANGED <<state, holders>>

\* HostBuffer.Free: frees the memory; the handle is invalid afterwards. Like
\* all other access it waits for the buffer to be released.
Free(b) ==
  /\ state[b] = "Unlocked"
  /\ state' = [state EXCEPT ![b] = "Freed"]
  /\ data' = [data EXCEPT ![b] = <<>>]
  /\ quiet' = [q \in Procs |-> FALSE]
  /\ before' = [q \in Procs |-> NoCall]
  /\ UNCHANGED <<holders, pc, dstB, srcB, dst, src, result>>
  /\ UNCHANGED svars

----------------------------------------------------------------------------
(* HostTransfer(dstB, srcB), one action per statement *)

\* A caller enters HostTransfer(d, s).
Call(p, d, s) ==
  /\ pc[p] = "idle"
  /\ pc' = [pc EXCEPT ![p] = "acqSrc"]
  /\ dstB' = [dstB EXCEPT ![p] = d]
  /\ srcB' = [srcB EXCEPT ![p] = s]
  /\ LET alone == \A r \in Procs \ {p} : Idle(r)
     IN  /\ quiet' = [q \in Procs |-> q = p /\ alone]
         /\ before' = [q \in Procs |->
                         IF q = p /\ alone
                           THEN [dst |-> data[d], src |-> data[s],
                                 dstState |-> state[d], srcState |-> state[s]]
                           ELSE NoCall]
  /\ UNCHANGED <<state, holders, data, dst, src, result>>
  /\ UNCHANGED svars

AcquireSrcReleased(p) ==
  /\ pc[p] = "acqSrc"
  /\ state[srcB[p]] # "Locked"
  /\ src' = [src EXCEPT ![p] = Acquired(srcB[p])]
  /\ pc' = [pc EXCEPT ![p] = "acqDst"]
  /\ Disturb(p)
  /\ UNCHANGED <<state, holders, data, dstB, srcB, dst, result>>
  /\ UNCHANGED svars

\* src := srcB.Acquire(); defer srcB.Release()
AcquireSrc(p) ==
  /\ pc[p] = "acqSrc"
  /\ Acquire(p, srcB[p])
  /\ src' = [src EXCEPT ![p] = Acquired(srcB[p])]
  /\ pc' = [pc EXCEPT ![p] = "acqDst"]
  /\ Disturb(p)
  /\ UNCHANGED <<data, dstB, srcB, dst, result>>
  /\ UNCHANGED svars

\* dst := dstB.Acquire(); defer dstB.Release()
AcquireDst(p) ==
  /\ pc[p] = "acqDst"
  /\ Acquire(p, dstB[p])
  /\ dst' = [dst EXCEPT ![p] = Acquired(dstB[p])]
  /\ pc' = [pc EXCEPT ![p] = "check"]
  /\ Disturb(p)
  /\ UNCHANGED <<data, dstB, srcB, src, result>>
  /\ UNCHANGED svars

CheckLenNoDefer(p) ==
  /\ pc[p] = "check"
  /\ IF SliceLen(src[p], srcB[p]) # SliceLen(dst[p], dstB[p])
       THEN /\ result' = [result EXCEPT ![p] = "error"]
            /\ pc' = [pc EXCEPT ![p] = "done"]
       ELSE /\ pc' = [pc EXCEPT ![p] = "copy"]
            /\ UNCHANGED result
  /\ Disturb(p)
  /\ UNCHANGED <<state, holders, data, dstB, srcB, dst, src>>
  /\ UNCHANGED svars

CheckLenIgnored(p) ==
  /\ pc[p] = "check"
  /\ pc' = [pc EXCEPT ![p] = "copy"]
  /\ Disturb(p)
  /\ UNCHANGED <<state, holders, data, dstB, srcB, dst, src, result>>
  /\ UNCHANGED svars

\* if len(src) != len(dst) { return errors.Errorf(...) }
CheckLen(p) ==
  /\ pc[p] = "check"
  /\ IF SliceLen(src[p], srcB[p]) # SliceLen(dst[p], dstB[p])
       THEN /\ result' = [result EXCEPT ![p] = "error"]
            /\ pc' = [pc EXCEPT ![p] = "relDst"]
       ELSE /\ pc' = [pc EXCEPT ![p] = "copy"]
            /\ UNCHANGED result
  /\ Disturb(p)
  /\ UNCHANGED <<state, holders, data, dstB, srcB, dst, src>>
  /\ UNCHANGED svars

\* copy(src, dst); return nil
\* The first argument of Go's copy is the slice written to: the bytes of the
\* dst slice are written into the src slice, that is into srcB's memory.
Copy(p) ==
  /\ pc[p] = "copy"
  /\ data' = IF src[p] = "ref" /\ dst[p] = "ref"
               THEN [data EXCEPT ![srcB[p]] = GoCopy(data[srcB[p]], data[dstB[p]])]
               ELSE data
  /\ result' = [result EXCEPT ![p] = "nil"]
  /\ pc' = [pc EXCEPT ![p] = "relDst"]
  /\ Disturb(p)
  /\ UNCHANGED <<state, holders, dstB, srcB, dst, src>>
  /\ UNCHANGED svars

\* deferred dstB.Release() (deferred calls run last in, first out)
ReleaseDst(p) ==
  /\ pc[p] = "relDst"
  /\ Release(p, dstB[p])
  /\ pc' = [pc EXCEPT ![p] = "relSrc"]
  /\ Disturb(p)
  /\ UNCHANGED <<data, dstB, srcB, dst, src, result>>
  /\ UNCHANGED svars

\* deferred srcB.Release(); HostTransfer has returned
ReleaseSrc(p) ==
  /\ pc[p] = "relSrc"
  /\ Release(p, srcB[p])
  /\ pc' = [pc EXCEPT ![p] = "done"]
  /\ Disturb(p)
  /\ UNCHANGED <<data, dstB, srcB, dst, src, result>>
  /\ UNCHANGED svars

\* The caller has read the result; its frame is gone and it may call again.
Return(p) ==
  /\ pc[p] = "done"
  /\ pc' = [pc EXCEPT ![p] = "idle"]
  /\ dstB' = [dstB EXCEPT ![p] = "a"]
  /\ srcB' = [srcB EXCEPT ![p] = "a"]
  /\ dst' = [dst EXCEPT ![p] = "unset"]
  /\ src' = [src EXCEPT ![p] = "unset"]
  /\ result' = [result EXCEPT ![p] = "none"]
  /\ quiet' = [q \in Procs |-> FALSE]
  /\ before' = [q \in Procs |-> NoCall]
  /\ UNCHANGED <<state, holders, data>>
  /\ UNCHANGED svars

----------------------------------------------------------------------------
(* Package dtype: DataType and Sizeof *)

\* Largest DataType value applied (one above Float64: an unrecognized kind).
MaxDType == 9

\* Largest rank and largest axis length of the shapes applied.
MaxRank == 2

MaxAxis == 2

\* const ( Invalid DataType = iota; Bool; Int; ... Float64 )
Invalid == 0

Bool == 1

IntDT == 2

Int32 == 3

Int64 == 4

Uint32 == 5

Uint64 == 6

Float32 == 7

Float64 == 8

\* Sizes of data type (in bytes).
BoolSize == 1

Int32Size == 4

Int64Size == 8

Uint32Size == 4

Uint64Size == 8

Float32Size == 4

Float64Size == 8

DataTypes == 0..MaxDType

\* What a Go function call produces: a returned value, or a panic.
Ret(v) == [panic |-> FALSE, val |-> v]

Panic == [panic |-> TRUE, val |-> 0]

SizeofSizesInt(dt) ==
  CASE dt = Bool -> Ret(BoolSize)
    [] dt = IntDT -> Ret(Int64Size)
    [] dt = Int32 -> Ret(Int32Size)
    [] dt = Int64 -> Ret(Int64Size)
    [] dt = Uint32 -> Ret(Uint32Size)
    [] dt = Uint64 -> Ret(Uint64Size)
    [] dt = Float32 -> Ret(Float32Size)
    [] dt = Float64 -> Ret(Float64Size)
    [] OTHER -> Panic

\* func Sizeof(dt DataType) int: a switch over the kinds, then
\* panic("invalid datatype").
Sizeof(dt) ==
  CASE dt = Bool -> Ret(BoolSize)
    [] dt = Int32 -> Ret(Int32Size)
    [] dt = Int64 -> Ret(Int64Size)
    [] dt = Uint32 -> Ret(Uint32Size)
    [] dt = Uint64 -> Ret(Uint64Size)
    [] dt = Float32 -> Ret(Float32Size)
    [] dt = Float64 -> Ret(Float64Size)
    [] OTHER -> Panic

----------------------------------------------------------------------------
(* Package shape: Shape and its methods *)

AxisSeqs == UNION {[1..n -> 0..MaxAxis] : n \in 0..MaxRank}

\* type Shape struct { DType dtype.DataType; AxisLengths []int }
Shapes == [DType : DataTypes, AxisLengths : AxisSeqs]

\* func (s Shape) IsAtomic() bool
IsAtomic(s) == Len(s.AxisLengths) = 0

RECURSIVE SizeLoop(_, _, _)
\* for _, d := range s.AxisLengths { size *= d }, from position i on
SizeLoop(axes, i, size) ==
  IF i > Len(axes) THEN size ELSE SizeLoop(axes, i + 1, size * axes[i])

SizeFromZero(s) == SizeLoop(s.AxisLengths, 1, 0)

\* func (s Shape) Size() int: size := 1; the loop; return size
Size(s) == SizeLoop(s.AxisLengths, 1, 1)

\* func (s Shape) ByteSize() int: dtype.Sizeof(s.DType) * s.Size()
ByteSize(s) ==
  IF Sizeof(s.DType).panic THEN Panic ELSE Ret(Sizeof(s.DType).val * Size(s))

RECURSIVE AxesEqualFrom(_, _, _)
\* Element-wise comparison of two axis-length sequences of the same length.
AxesEqualFrom(a, b, i) ==
  IF i > Len(a) THEN TRUE
  ELSE IF a[i] # b[i] THEN FALSE
  ELSE AxesEqualFrom(a, b, i + 1)

EqualIgnoresDType(x, y) ==
  /\ Len(x.AxisLengths) = Len(y.AxisLengths)
  /\ AxesEqualFrom(x.AxisLengths, y.AxisLengths, 1)

\* func (s *Shape) Equal(other *Shape) bool: same DataType and element-wise
\* equal axis-length sequences.
Equal(x, y) ==
  /\ x.DType = y.DType
  /\ Len(x.AxisLengths) = Len(y.AxisLengths)
  /\ AxesEqualFrom(x.AxisLengths, y.AxisLengths, 1)

\* Each behaviour of the value functions applies one function to one shape.
NoShape == [DType |-> Invalid, AxisLengths |-> <<>>]

NoRes == [op |-> "none", arg |-> NoShape, ret |-> Ret(0)]

\* dtype.Sizeof(sx.DType)
CallSizeof ==
  /\ sres = NoRes
  /\ sres' = [op |-> "Sizeof", arg |-> NoShape, ret |-> Sizeof(sx.DType)]
  /\ UNCHANGED <<sx, tvars>>

\* sx.IsAtomic()
CallIsAtomic ==
  /\ sres = NoRes
  /\ sres' = [op |-> "IsAtomic", arg |-> NoShape, ret |-> Ret(IsAtomic(sx))]
  /\ UNCHANGED <<sx, tvars>>

\* sx.Size()
CallSize ==
  /\ sres = NoRes
  /\ sres' = [op |-> "Size", arg |-> NoShape, ret |-> Ret(Size(sx))]
  /\ UNCHANGED <<sx, tvars>>

\* sx.ByteSize()
CallByteSize ==
  /\ sres = NoRes
  /\ sres' = [op |-> "ByteSize", arg |-> NoShape, ret |-> ByteSize(sx)]
  /\ UNCHANGED <<sx, tvars>>

\* sx.Equal(&y)
CallEqual(y) ==
  /\ sres = NoRes
  /\ sres' = [op |-> "Equal", arg |-> y, ret |-> Ret(Equal(sx, y))]
  /\ UNCHANGED <<sx, tvars>>

\* The transfer system is idle while the value functions are exercised.
ShapeIdle == sx = NoShape /\ sres = NoRes

ShapeInit == sx \in Shapes /\ sres = NoRes

NextShape ==
  \/ CallSizeof
  \/ CallIsAtomic
  \/ CallSize
  \/ CallByteSize
  \/ \E y \in Shapes : CallEqual(y)

----------------------------------------------------------------------------
(* Package dtype: DataType.String, ToSlice and Bfloat16T *)

\* Longest byte buffer handed to ToSlice.
MaxDataLen == 16

StringNamesInt(dt) ==
  CASE dt = Bool -> "bool"
    [] dt = IntDT -> "int"
    [] dt = Int32 -> "int32"
    [] dt = Int64 -> "int64"
    [] dt = Uint32 -> "uint32"
    [] dt = Uint64 -> "uint64"
    [] dt = Float32 -> "float32"
    [] dt = Float64 -> "float64"
    [] OTHER -> "invalid"

\* func (dt DataType) String() string: a switch over the kinds, then
\* return "invalid".
String(dt) ==
  CASE dt = Bool -> "bool"
    [] dt = Int32 -> "int32"
    [] dt = Int64 -> "int64"
    [] dt = Uint32 -> "uint32"
    [] dt = Uint64 -> "uint64"
    [] dt = Float32 -> "float32"
    [] dt = Float64 -> "float64"
    [] OTHER -> "invalid"

\* The Go types of constraint GoDataType.
GoTypes == {"bool", "int32", "int64", "uint32", "uint64", "float32", "float64"}

\* unsafe.Sizeof(t) for a t of Go type T.
UnsafeSizeof(T) ==
  IF T = "bool" THEN 1
  ELSE IF T \in {"int32", "uint32", "float32"} THEN 4
  ELSE 8

ToSliceNoCheck(T, n) ==
  IF n = 0 THEN Panic ELSE Ret(n \div UnsafeSizeof(T))

\* func ToSlice[T GoDataType](data []byte) []T, for a data of n bytes; the
\* value returned is the length of the slice. &data[0] indexes the first
\* byte: on an empty (or nil) data the index is out of range and Go panics.
ToSlice(T, n) ==
  IF n % UnsafeSizeof(T) # 0 THEN Panic
  ELSE IF n = 0 THEN Panic
  ELSE Ret(n \div UnsafeSizeof(T))

\* A uint32 is kept as its two 16-bit halves, value hi * 2^16 + lo. A
\* float32 is kept as its bit pattern (math.Float32bits and
\* math.Float32frombits reinterpret the bits and change none).
U32(hi, lo) == [hi |-> hi, lo |-> lo]

\* v >> 16 on a uint32
U32Shr16(v) == U32(0, v.hi)

\* v << 16 on a uint32: the upper half is shifted out
U32Shl16(v) == U32(v.lo, 0)

\* The conversions Bfloat16T(v) (to uint16, keeps the low 16 bits) and uint32(f).
ToUint16(v) == v.lo

ToUint32(f) == U32(0, f)

\* Sign, exponent and mantissa of a float32 bit pattern.
ExponentOf(x) == (x.hi \div 128) % 256

IsNaN(x) == ExponentOf(x) = 255 /\ (x.hi % 128 # 0 \/ x.lo # 0)

IsInf(x) == ExponentOf(x) = 255 /\ x.hi % 128 = 0 /\ x.lo = 0

IsFinite(x) == ExponentOf(x) < 255

BFloat16FromFloat32Rounded(x) ==
  IF x.lo >= 32768 THEN (x.hi + 1) % 65536 ELSE x.hi

BFloat16FromFloat32KeepsNaN(x) ==
  IF IsNaN(x) /\ x.hi % 128 = 0 THEN x.hi + 64 ELSE x.hi

\* func BFloat16FromFloat32(x float32) Bfloat16T:
\* Bfloat16T(math.Float32bits(x) >> 16)
BFloat16FromFloat32(x) == ToUint16(U32Shr16(x))

\* func (f Bfloat16T) Float32() float32:
\* math.Float32frombits(uint32(f) << 16)
Bfloat16TFloat32(f) == U32Shl16(ToUint32(f))

\* The float32 bit patterns converted: both signs; exponents of zero and
\* subnormals, the smallest and largest normal ones, the one of 1.0, and
\* the one of infinities and NaNs; mantissas with bits in the upper 7 bits,
\* in the lower 16 bits, in both and in none.
Float32Patterns ==
  {U32(s * 32768 + e * 128 + m, l) :
     s \in {0, 1}, e \in {0, 1, 127, 254, 255}, m \in {0, 1, 64, 127},
     l \in {0, 1, 8, 32767, 32768, 65535}}

\* dt.String()
CallString(dt) ==
  /\ sres.op = "none"
  /\ sres' = [op |-> "String", arg |-> dt, ret |-> Ret(String(dt))]
  /\ UNCHANGED <<sx, tvars>>

\* ToSlice[T](data) with len(data) = n
CallToSlice(T, n) ==
  /\ sres.op = "none"
  /\ sres' = [op |-> "ToSlice", arg |-> [T |-> T, len |-> n], ret |-> ToSlice(T, n)]
  /\ UNCHANGED <<sx, tvars>>

\* f := BFloat16FromFloat32(x)
CallBFloat16FromFloat32(x) ==
  /\ sres.op = "none"
  /\ sres' = [op |-> "BFloat16FromFloat32", arg |-> [x |-> x, f |-> 0],
              ret |-> Ret(BFloat16FromFloat32(x))]
  /\ UNCHANGED <<sx, tvars>>

\* f.Float32(), for the f the conversion from x returned
CallFloat32 ==
  /\ sres.op = "BFloat16FromFloat32"
  /\ sres' = [op |-> "Float32", arg |-> [x |-> sres.arg.x, f |-> sres.ret.val],
              ret |-> Ret(Bfloat16TFloat32(sres.ret.val))]
  /\ UNCHANGED <<sx, tvars>>

NextDType ==
  \/ \E dt \in DataTypes : CallString(dt)
  \/ \E T \in GoTypes, n \in 0..MaxDataLen : CallToSlice(T, n)
  \/ \E x \in Float32Patterns : CallBFloat16FromFloat32(x)
  \/ CallFloat32

----------------------------------------------------------------------------
(* The specifications *)

\* After allocation: every buffer unlocked, holding arbitrary bytes.
TransferInit ==
  /\ state = [b \in Bufs |-> "Unlocked"]
  /\ holders = [b \in Bufs |-> {}]
  /\ data \in [Bufs -> BytesOfLen(1) \cup BytesOfLen(2)]
  /\ \A b \in Bufs : Len(data[b]) = AllocLen(b)
  /\ pc = [p \in Procs |-> "idle"]
  /\ dstB = [p \in Procs |-> "a"]
  /\ srcB = [p \in Procs |-> "a"]
  /\ dst = [p \in Procs |-> "unset"]
  /\ src = [p \in Procs |-> "unset"]
  /\ result = [p \in Procs |-> "none"]
  /\ before = [p \in Procs |-> NoCall]
  /\ quiet = [p \in Procs |-> FALSE]

Init == TransferInit /\ ShapeIdle

Next ==
  \/ \E p \in Procs, d \in Bufs, s \in Bufs : Call(p, d, s)
  \/ \E p \in Procs : AcquireSrc(p)
  \/ \E p \in Procs : AcquireDst(p)
  \/ \E p \in Procs : CheckLen(p)
  \/ \E p \in Procs : Copy(p)
  \/ \E p \in Procs : ReleaseDst(p)
  \/ \E p \in Procs : ReleaseSrc(p)
  \/ \E p \in Procs : Return(p)
  \/ \E b \in Bufs : Free(b)

Spec == Init /\ [][Next]_vars

\* No transfer runs: all buffers unlocked and zeroed, all callers idle.
TransferIdle ==
  /\ state = [b \in Bufs |-> "Unlocked"]
  /\ holders = [b \in Bufs |-> {}]
  /\ data = [b \in Bufs |-> [i \in 1..AllocLen(b) |-> 0]]
  /\ pc = [p \in Procs |-> "idle"]
  /\ dstB = [p \in Procs |-> "a"]
  /\ srcB = [p \in Procs |-> "a"]
  /\ dst = [p \in Procs |-> "unset"]
  /\ src = [p \in Procs |-> "unset"]
  /\ result = [p \in Procs |-> "none"]
  /\ before = [p \in Procs |-> NoCall]
  /\ quiet = [p \in Procs |-> FALSE]

InitShape == ShapeInit /\ TransferIdle

\* The pure functions of dtype and shape applied to every shape in bounds.
SpecShape == InitShape /\ [][NextShape]_vars

InitDType == ShapeIdle /\ TransferIdle

\* String, ToSlice and the Bfloat16T conversions applied to every input in
\* bounds.
SpecDType == InitDType /\ [][NextDType]_vars

----------------------------------------------------------------------------
(* Properties of HostTransfer and HostBuffer, under Spec *)

\* Caller p has returned from a call that ran undisturbed from start to end.
ReturnedQuiet(p) == pc[p] = "done" /\ quiet[p]

\* C1: for distinct, unlocked, non-freed buffers of equal byte length, once
\* HostTransfer(dst, src) has returned, dst holds the bytes src held before
\* the call, src is unchanged, and no error is returned.
C1_TransferCopiesSrcToDst ==
  \A p \in Procs :
    ( /\ ReturnedQuiet(p)
      /\ dstB[p] # srcB[p]
      /\ before[p].dstState = "Unlocked"
      /\ before[p].srcState = "Unlocked"
      /\ Len(before[p].dst) = Len(before[p].src) )
    => /\ result[p] = "nil"
       /\ data[dstB[p]] = before[p].src
       /\ data[srcB[p]] = before[p].src

\* C2: when the byte lengths of the two acquired buffers differ, HostTransfer
\* returns the size-mismatch error and the bytes of both buffers are as they
\* were before the call: nothing was copied. With or without concurrent
\* callers, the copy statement is reached with equal lengths only.
C2_MismatchIsErrorAndNoCopy ==
  \A p \in Procs :
    /\ (ReturnedQuiet(p) /\ Len(before[p].dst) # Len(before[p].src))
       => /\ result[p] = "error"
          /\ data[dstB[p]] = before[p].dst
          /\ data[srcB[p]] = before[p].src
    /\ pc[p] = "copy" => SliceLen(src[p], srcB[p]) = SliceLen(dst[p], dstB[p])

\* A call on two live buffers of different lengths has returned.
C2_Witness ==
  \E p \in Procs :
    /\ ReturnedQuiet(p)
    /\ Len(before[p].dst) # Len(before[p].src)
    /\ Len(before[p].dst) > 0
    /\ Len(before[p].src) > 0
    /\ result[p] = "error"

\* C3: whenever HostTransfer has returned, by the normal return or by the
\* size-mismatch return, the call holds neither buffer, and a call that ran
\* undisturbed leaves neither buffer Locked.
C3_ReleasedOnEveryExit ==
  \A p \in Procs :
    pc[p] = "done"
    => /\ p \notin holders[dstB[p]]
       /\ p \notin holders[srcB[p]]
       /\ quiet[p] => (state[dstB[p]] # "Locked" /\ state[srcB[p]] # "Locked")

\* A call has taken the error return after it had locked both buffers (both
\* are unlocked again, not freed).
C3_Witness ==
  \E p \in Procs :
    /\ pc[p] = "done"
    /\ result[p] = "error"
    /\ quiet[p]
    /\ state[dstB[p]] = "Unlocked"
    /\ state[srcB[p]] = "Unlocked"

\* Caller p holds the first buffer it acquired and waits for buffer b.
HoldsAndWaitsFor(p, b) ==
  /\ pc[p] = "acqDst"
  /\ p \in holders[srcB[p]]
  /\ dstB[p] = b
  /\ state[b] = "Locked"

\* C4: two concurrent calls HostTransfer(a, b) and HostTransfer(b, a) never
\* reach a state in which each call holds one buffer and waits for the
\* buffer the other one holds.
C4_NoCircularWait ==
  ~ \E p \in Procs, q \in Procs :
      /\ p # q
      /\ HoldsAndWaitsFor(p, srcB[q])
      /\ HoldsAndWaitsFor(q, srcB[p])

\* Caller p holds buffer b exclusively, or Acquire returned nil for it.
HeldOrNil(p, sl, b) ==
  \/ sl = "nil"
  \/ sl = "ref" /\ state[b] = "Locked" /\ holders[b] = {p}

\* C5: the byte copy is performed only while the call holds both buffers:
\* at the copy statement, both Acquire calls have returned and neither
\* buffer has been released.
C5_CopyOnlyWhileBothHeld ==
  \A p \in Procs :
    pc[p] = "copy"
    => /\ HeldOrNil(p, src[p], srcB[p])
       /\ HeldOrNil(p, dst[p], dstB[p])

\* A call is about to copy between two distinct buffers it has locked.
C5_Witness ==
  \E p \in Procs :
    /\ pc[p] = "copy"
    /\ src[p] = "ref"
    /\ dst[p] = "ref"
    /\ dstB[p] # srcB[p]

AcquireReturns(p, at, sl, b) == pc[p] = at /\ pc'[p] # at /\ sl'[p] # "nil"

ReleaseCalled(p, b) ==
  \/ pc[p] = "relDst" /\ pc'[p] = "relSrc" /\ dstB[p] = b
  \/ pc[p] = "relSrc" /\ pc'[p] = "done" /\ srcB[p] = b

\* C12: every Release that HostTransfer performs on a buffer happens while
\* the buffer is Locked and held by that call; no Release is called on a
\* freed (or unlocked) buffer.
C12_ReleaseOnlyFromLocked ==
  [][\A p \in Procs, b \in Bufs :
       ReleaseCalled(p, b) => (state[b] = "Locked" /\ p \in holders[b])]_vars

\* Caller p is blocked in an Acquire: the buffer it asks for is Locked.
Blocked(p) ==
  \/ pc[p] = "acqSrc" /\ state[srcB[p]] = "Locked"
  \/ pc[p] = "acqDst" /\ state[dstB[p]] = "Locked"

\* C13: a call on two unlocked, non-freed buffers that no other caller
\* holds, the same buffer twice included, is never blocked (all other
\* callers are idle, so a blocked call would never return).
C13_UndisturbedCallNeverBlocks ==
  \A p \in Procs :
    ( /\ quiet[p]
      /\ before[p].dstState = "Unlocked"
      /\ before[p].srcState = "Unlocked" )
    => ~ Blocked(p)

----------------------------------------------------------------------------
(* Properties of dtype and shape, under SpecShape *)

\* The kinds Sizeof has a case for.
SizedKinds == {Bool, Int32, Int64, Uint32, Uint64, Float32, Float64}

\* The kinds declared in the DataType constant block other than Invalid.
DeclaredKinds == Bool..Float64

\* Bytes of a kind by its name: 8-bit bool, 32-bit and 64-bit numbers.
WidthOf(dt) ==
  IF dt = Bool THEN 1
  ELSE IF dt \in {Int32, Uint32, Float32} THEN 4
  ELSE 8

\* C8 as stated: for every declared kind other than Invalid (Int included)
\* Sizeof returns a fixed, strictly positive byte count; for every other
\* value it panics.
C8_SizeofOfDeclaredKinds ==
  sres.op = "Sizeof"
  => IF sx.DType \in DeclaredKinds
       THEN ~ sres.ret.panic /\ sres.ret.val > 0
       ELSE sres.ret.panic

\* C8 amended: for Bool, Int32, Int64, Uint32, Uint64, Float32 and Float64
\* Sizeof returns the fixed, strictly positive byte count of the kind; for
\* Invalid, Int and every other value it panics.
C8_SizeofOfSizedKinds ==
  sres.op = "Sizeof"
  => IF sx.DType \in SizedKinds
       THEN ~ sres.ret.panic /\ sres.ret.val > 0 /\ sres.ret.val = WidthOf(sx.DType)
       ELSE sres.ret.panic

\* Sizeof has been applied to Int, and has panicked.
C8_Witness == sres.op = "Sizeof" /\ sx.DType = IntDT /\ sres.ret.panic

RECURSIVE Product(_)
\* The product of a sequence of numbers (1 for the empty sequence).
Product(axes) == IF axes = <<>> THEN 1 ELSE Head(axes) * Product(Tail(axes))

\* C9: for a shape with a valid DType, Size is the product of the axis
\* lengths and ByteSize is Size times Sizeof(DType); a shape without axes
\* has Size 1 and is atomic; a shape of rank >= 1 is not atomic.
C9_SizeAndByteSize ==
  /\ sres.op = "Size"
     => /\ sres.ret.val = Product(sx.AxisLengths)
        /\ sx.AxisLengths = <<>> => sres.ret.val = 1
  /\ (sres.op = "ByteSize" /\ sx.DType \in SizedKinds)
     => /\ ~ sres.ret.panic
        /\ sres.ret.val = Product(sx.AxisLengths) * WidthOf(sx.DType)
        /\ sres.ret.val = Size(sx) * Sizeof(sx.DType).val
  /\ sres.op = "IsAtomic"
     => /\ sx.AxisLengths = <<>> => sres.ret.val = TRUE
        /\ Len(sx.AxisLengths) >= 1 => sres.ret.val = FALSE

\* ByteSize has been applied to a rank-2 shape of a 64-bit kind with more
\* than one element.
C9_Witness ==
  /\ sres.op = "ByteSize"
  /\ sx.DType = Float64
  /\ Len(sx.AxisLengths) = 2
  /\ sres.ret.val = 32

\* C10: x.Equal(&y) is true if and only if x and y have the same DType, the
\* same number of axes and the same axis length at every position.
C10_EqualIffSame ==
  sres.op = "Equal"
  => (sres.ret.val
      <=> /\ sx.DType = sres.arg.DType
          /\ Len(sx.AxisLengths) = Len(sres.arg.AxisLengths)
          /\ \A i \in 1..Len(sx.AxisLengths) :
               i <= Len(sres.arg.AxisLengths) => sx.AxisLengths[i] = sres.arg.AxisLengths[i])

\* Equal has answered false for two shapes of the same DType and rank that
\* differ in one axis length only.
C10_Witness ==
  /\ sres.op = "Equal"
  /\ ~ sres.ret.val
  /\ sx.DType = sres.arg.DType
  /\ Len(sx.AxisLengths) = 2
  /\ Len(sres.arg.AxisLengths) = 2
  /\ sx.AxisLengths[1] = sres.arg.AxisLengths[1]
  /\ sx.AxisLengths[2] # sres.arg.AxisLengths[2]

----------------------------------------------------------------------------
(* Properties of String, ToSlice and Bfloat16T, under SpecDType *)

\* C11: BFloat16FromFloat32 stores the bit pattern shifted right by 16 (its
\* upper half), and converting back with Float32 yields the pattern with its
\* lower 16 bits cleared; a pattern whose lower 16 bits are zero, such as
\* that of 1.0, round-trips exactly.
C11_RoundTripTruncates ==
  /\ sres.op = "BFloat16FromFloat32" => sres.ret.val = sres.arg.x.hi
  /\ sres.op = "Float32"
     => /\ sres.arg.f = sres.arg.x.hi
        /\ sres.ret.val = U32(sres.arg.x.hi, 0)
        /\ sres.arg.x.lo = 0 => sres.ret.val = sres.arg.x

\* 1.0 + 2^-20 (0x3F800008) has been converted and back: the result is 1.0
\* (0x3F800000).
C11_Witness ==
  /\ sres.op = "Float32"
  /\ sres.arg.x = U32(16256, 8)
  /\ sres.ret.val = U32(16256, 0)

\* The names String gives to the kinds it knows.
KindNames == {"bool", "int32", "int64", "uint32", "uint64", "float32", "float64"}

\* C14: String and Sizeof agree on the valid kinds: dt.String() is "invalid"
\* if and only if Sizeof(dt) panics (Invalid, Int and the values above
\* Float64 included), and every other kind has a lowercase name no other
\* kind has.
C14_StringAgreesWithSizeof ==
  sres.op = "String"
  => /\ (sres.ret.val = "invalid") <=> Sizeof(sres.arg).panic
     /\ sres.ret.val # "invalid"
        => /\ sres.ret.val \in KindNames
           /\ \A dt \in DataTypes \ {sres.arg} : String(dt) # sres.ret.val

\* String has been applied to Int and has answered "invalid".
C14_Witness ==
  /\ sres.op = "String"
  /\ sres.arg = IntDT
  /\ sres.ret.val = "invalid"

\* C15: ToSlice panics if len(data) is not a multiple of sizeof(T); for
\* every other data, the empty one included, it returns without a panic a
\* slice of len(data) / sizeof(T) elements.
C15_ToSlicePanicsOnlyOnRemainder ==
  sres.op = "ToSlice"
  => IF sres.arg.len % UnsafeSizeof(sres.arg.T) # 0
       THEN sres.ret.panic
       ELSE /\ ~ sres.ret.panic
            /\ sres.ret.val = sres.arg.len \div UnsafeSizeof(sres.arg.T)

\* C16 as stated: the round trip through Bfloat16T preserves the class of
\* the float32: NaN stays NaN, finite stays finite, infinity stays infinity.
C16_ClassPreserved ==
  sres.op = "Float32"
  => /\ IsNaN(sres.arg.x) => IsNaN(sres.ret.val)
     /\ IsFinite(sres.arg.x) => IsFinite(sres.ret.val)
     /\ IsInf(sres.arg.x) => IsInf(sres.ret.val)

\* C16 amended: finite stays finite and infinity stays infinity; a NaN
\* stays a NaN if one of the upper 7 bits of its mantissa is set, and a NaN
\* whose mantissa bits are all in the lower 16 bits becomes the infinity of
\* its sign.
C16_ClassAfterTruncation ==
  sres.op = "Float32"
  => /\ IsFinite(sres.arg.x) => IsFinite(sres.ret.val)
     /\ IsInf(sres.arg.x) => IsInf(sres.ret.val)
     /\ (IsNaN(sres.arg.x) /\ sres.arg.x.hi % 128 # 0) => IsNaN(sres.ret.val)
     /\ (IsNaN(sres.arg.x) /\ sres.arg.x.hi % 128 = 0)
        => (IsInf(sres.ret.val) /\ sres.ret.val.hi = sres.arg.x.hi)

\* The NaN 0x7F800001 has been converted and back, and has become +Inf.
C16_Witness ==
  /\ sres.op = "Float32"
  /\ sres.arg.x = U32(32640, 1)
  /\ IsNaN(sres.arg.x)
  /\ IsInf(sres.ret.val)

====
